---- MODULE Spec2Model ----
(***************************************************************************)
(* Session document index synchronizer of src/main.py: the Streamlit       *)
(* script that keeps st.session_state.files, the DocumentLoader, the       *)
(* staged files under upload_tmp_dir() and the published agent in step.    *)
(* One behaviour is a sequence of script runs (interaction cycles) of one  *)
(* session; a run is the Clear History test, the add loop, the removal     *)
(* loop, the rebuild block and the chat turn, and an uncaught exception    *)
(* ends the run where it is raised.                                        *)
(***************************************************************************)
EXTENDS Integers, Sequences, FiniteSets, TLC

\* ---------------------------------------------------------------- bounds
NumFiles == 3       \* distinct uploaded-file objects (file ids) of the session
MaxUpload == 2      \* longest list the file_uploader widget reports in one run
MaxTurns == 1       \* chat turns answered in one behaviour
MaxShortUpload == 1 \* longest uploader list in the runs that also chat
MaxErrLen == 52     \* longest text of an output-parsing error

\* ---------------------------------------------------------------- inputs
FileIds == 1..NumFiles

\* file.name, as a sequence of characters: ids 1,3,.. are "a.t", ids 2,4,..
\* are "b.t" (the uploader accepts two uploads with one name; each upload is
\* its own UploadedFile, compared by file id).
Name(f) == <<(IF f % 2 = 1 THEN "a" ELSE "b"), ".", "t">>

\* file.getvalue() is content that DocumentLoader.load cannot parse
Corrupt(f) == f % 3 = 0

\* file.getvalue() is content that loads as a document without text, from
\* which text_splitter.split_documents makes no chunk
Empty(f) == f % 3 = 1

Range(s) == {s[k] : k \in 1..Len(s)}

\* the values st.file_uploader(accept_multiple_files=True) can return:
\* lists of distinct UploadedFile objects
UploadSeqs ==
    UNION {{s \in [1..n -> FileIds] : \A j, k \in 1..n : j # k => s[j] # s[k]}
           : n \in 0..MaxUpload}

\* the same, for a user who keeps at most MaxShortUpload files uploaded
ShortUploadSeqs == {s \in UploadSeqs : Len(s) <= MaxShortUpload}

\* the same, for a user who uploads and removes one file, file 2
OneFileSeqs == {s \in UploadSeqs : Range(s) \subseteq {2}}

\* the file another session of the same server process uploads
OtherFile == NumFiles + 1

\* str(error) of an OutputParserException: character k is written k
ErrorTexts == {[k \in 1..n |-> k] : n \in 0..MaxErrLen}

\* ---------------------------------------------------------------- state
VARIABLES
    files,           \* st.session_state.files (list of UploadedFile)
    loader,          \* st.session_state.loader: stored documents, by path
    staged,          \* the files under upload_tmp_dir(), by path
    on_change,       \* st.session_state.on_change
    agent,           \* st.session_state.agent
    uploaded_files,  \* value of the file_uploader widget in the current run
    pc,              \* position of the script run
    idx,             \* position of the running for-loop's list iterator
    outcome,         \* how the last run ended / "running"
    calls,           \* splitter, index-builder, composer calls of this run
    same,            \* this run's uploaded_files equal the previous run's,
                     \* whose two loops had completed
    mutated,         \* a loop of this run changed files, loader or staged
    startOn,         \* on_change when this run started
    changed,         \* an add or a removal of this run ran to its last line
    messages,        \* st.session_state.messages (the displayed chat)
    langchain_messages,  \* st.session_state.langchain_messages: the turn
                     \* history behind msgs / memory
    parse_error,     \* the output-parsing error of this run's agent.invoke
    otherFiles       \* st.session_state.files of another session, as a set

vars == <<files, loader, staged, on_change, agent, uploaded_files, pc, idx,
          outcome, calls, same, mutated, startOn, changed, messages,
          langchain_messages, parse_error, otherFiles>>

\* the chat state and the other session's state, which the file loops and
\* the rebuild block of this session do not touch
chatVars == <<messages, langchain_messages, parse_error, otherFiles>>

\* ---------------------------------------------------------------- helpers
\* temp_filepath = upload_tmp_dir() / file.name
TempPath(f) == Name(f)

\* with temp_filepath.open("wb") as temp_file: temp_file.write(file.getvalue())
StageWrite(st, f) ==
    {d \in st : d.path # TempPath(f)} \cup {[path |-> TempPath(f), bytes |-> f]}

StagedAt(st, p) == \E d \in st : d.path = p

\* temp_filepath.unlink()
Unlink(st, p) == {d \in st : d.path # p}

\* DocumentLoader.load(path): stores the document read from path, under path
LoaderLoad(l, st, p) ==
    LET d == CHOOSE x \in st : x.path = p
    IN  {y \in l : y.path # p} \cup {[path |-> p, content |-> d.bytes]}

\* DocumentLoader.remove(path): no-op for an unknown path
LoaderRemove(l, p) == {y \in l : y.path # p}

\* DocumentLoader.size
LoaderSize(l) == Cardinality(l)

\* DocumentLoader.documents
LoaderDocuments(l) == l

\* list.remove(x): drops the first element equal to x
RECURSIVE ListRemove(_, _)
ListRemove(s, x) ==
    IF s = <<>> THEN <<>>
    ELSE IF Head(s) = x THEN Tail(s)
    ELSE <<Head(s)>> \o ListRemove(Tail(s), x)

\* name.split(".")[0]
RECURSIVE SplitDotFirst(_)
SplitDotFirst(n) ==
    IF n = <<>> THEN <<>>
    ELSE IF Head(n) = "." THEN <<>>
    ELSE <<Head(n)>> \o SplitDotFirst(Tail(n))

\* ", ".join(parts)
RECURSIVE Join(_)
Join(parts) ==
    IF parts = <<>> THEN <<>>
    ELSE IF Len(parts) = 1 THEN parts[1]
    ELSE parts[1] \o <<",", " ">> \o Join(Tail(parts))

\* FILENAME_STR
FilenameStr(up) == Join([k \in 1..Len(up) |-> SplitDotFirst(Name(up[k]))])

\* create_retriever_tool over FAISS.from_documents(split(loader.documents))
VectorTool(l, up) ==
    [name |-> "vector-tool",
     index |-> LoaderDocuments(l),
     description |-> FilenameStr(up)]

\* StreamlitChatMessageHistory(): the session-state key that holds the turns
MsgsKey == "langchain_messages"

\* ConversationBufferWindowMemory(chat_memory=msgs, ...)
Memory == [chat_memory |-> MsgsKey, memory_key |-> "chat_history"]

\* the slice bound of handle_parsing_errors
ParseErrLimit == 50

\* text[:n]
Slice(text, n) == SubSeq(text, 1, IF Len(text) < n THEN Len(text) ELSE n)

\* the handler without the slice
HandleParsingErrors_Whole(text) == text

\* handle_parsing_errors=lambda error: str(error)[:50]
HandleParsingErrors(text) == Slice(text, ParseErrLimit)

\* AgentExecutor.from_agent_and_tools(..., tools=tools, memory=memory,
\* handle_parsing_errors=lambda error: str(error)[:50])
AgentExecutor(tools) ==
    [tools |-> tools, memory |-> Memory, handle_parsing_errors |-> "str(error)[:50]"]

NoError == [raised |-> FALSE, text |-> <<>>]

\* the chunks text_splitter.split_documents makes of the documents: one per
\* document with text
ChunkCount(docs) == Cardinality({d \in docs : ~Empty(d.content)})

\* st.chat_input value and the agent's answer, as character sequences
Prompt == <<"q">>
Answer == <<"o">>

NoCalls == [split |-> 0, embed |-> 0, compose |-> 0]

\* ---------------------------------------------------------------- Init
\* lines 121-135: the session state after the first initialisation
Init ==
    /\ files = <<>>
    /\ loader = {}
    /\ staged = {}
    /\ on_change = FALSE
    /\ agent = AgentExecutor(<<>>)
    /\ uploaded_files = <<>>
    /\ pc = "idle"
    /\ idx = 1
    /\ outcome = "none"
    /\ calls = NoCalls
    /\ same = FALSE
    /\ mutated = FALSE
    /\ startOn = FALSE
    /\ changed = FALSE
    /\ messages = <<>>
    /\ langchain_messages = <<>>
    /\ parse_error = NoError
    /\ otherFiles = {}

\* ---------------------------------------------------------------- actions
\* Clear History wired to msgs.clear() as well
StartRun_ClearsMemory(Seqs) ==
    /\ \E S \in Seqs :
        /\ uploaded_files' = S
        /\ same' = (S = uploaded_files /\ outcome \in {"ok", "EmbeddingError"})
    /\ pc' = "add"
    /\ idx' = 1
    /\ outcome' = "running"
    /\ calls' = NoCalls
    /\ mutated' = FALSE
    /\ startOn' = on_change
    /\ changed' = FALSE
    /\ \E clear_history \in BOOLEAN :
        /\ messages' = IF clear_history THEN <<>> ELSE messages
        /\ langchain_messages' =
                IF clear_history THEN <<>> ELSE langchain_messages
    /\ parse_error' = NoError
    /\ UNCHANGED <<files, loader, staged, on_change, agent, otherFiles>>

\* a user interaction reruns the script with the widgets' current values;
\* lines 117-118 empty the displayed chat when Clear History was pressed
StartRun(Seqs) ==
    /\ \E S \in Seqs :
        /\ uploaded_files' = S
        /\ same' = (S = uploaded_files /\ outcome \in {"ok", "EmbeddingError"})
    /\ pc' = "add"
    /\ idx' = 1
    /\ outcome' = "running"
    /\ calls' = NoCalls
    /\ mutated' = FALSE
    /\ startOn' = on_change
    /\ changed' = FALSE
    /\ \E clear_history \in BOOLEAN :
        messages' = IF clear_history THEN <<>> ELSE messages
    /\ parse_error' = NoError
    /\ UNCHANGED <<files, loader, staged, on_change, agent, langchain_messages,
                   otherFiles>>

StartCycle ==
    /\ pc = "idle"
    /\ StartRun(UploadSeqs)

\* the same interaction of a user who keeps at most MaxShortUpload files
StartCycleShort ==
    /\ pc = "idle"
    /\ StartRun(ShortUploadSeqs)

\* the same interaction of a user who uploads and removes file 2
StartCycleOne ==
    /\ pc = "idle"
    /\ StartRun(OneFileSeqs)

\* line 144: file already in st.session_state.files
AddSkip ==
    /\ pc = "add"
    /\ idx <= Len(uploaded_files)
    /\ uploaded_files[idx] \in Range(files)
    /\ idx' = idx + 1
    /\ UNCHANGED <<files, loader, staged, on_change, agent, uploaded_files,
                   pc, outcome, calls, same, mutated, startOn>>
    /\ UNCHANGED <<changed, chatVars>>

\* lines 144-159: append, stage, load, flag
AddFile ==
    /\ pc = "add"
    /\ idx <= Len(uploaded_files)
    /\ LET file == uploaded_files[idx] IN
        /\ file \notin Range(files)
        /\ ~Corrupt(file)
        /\ files' = Append(files, file)
        /\ staged' = StageWrite(staged, file)
        /\ loader' = LoaderLoad(loader, staged', TempPath(file))
    /\ on_change' = TRUE
    /\ idx' = idx + 1
    /\ mutated' = TRUE
    /\ UNCHANGED <<agent, uploaded_files, pc, outcome, calls, same, startOn>>
    /\ changed' = TRUE
    /\ UNCHANGED chatVars

\* lines 144-156 with loader.load raising: the run ends at line 156
AddLoadError ==
    /\ pc = "add"
    /\ idx <= Len(uploaded_files)
    /\ LET file == uploaded_files[idx] IN
        /\ file \notin Range(files)
        /\ Corrupt(file)
        /\ files' = Append(files, file)
        /\ staged' = StageWrite(staged, file)
    /\ pc' = "idle"
    /\ outcome' = "LoadError"
    /\ mutated' = TRUE
    /\ UNCHANGED <<loader, on_change, agent, uploaded_files, idx, calls, same,
                   startOn>>
    /\ UNCHANGED <<changed, chatVars>>

\* line 143: the for-loop over uploaded_files is exhausted
AddDone ==
    /\ pc = "add"
    /\ idx > Len(uploaded_files)
    /\ pc' = "remove"
    /\ idx' = 1
    /\ UNCHANGED <<files, loader, staged, on_change, agent, uploaded_files,
                   outcome, calls, same, mutated, startOn>>
    /\ UNCHANGED <<changed, chatVars>>

\* line 163: file still uploaded
RemoveSkip ==
    /\ pc = "remove"
    /\ idx <= Len(files)
    /\ files[idx] \in Range(uploaded_files)
    /\ idx' = idx + 1
    /\ UNCHANGED <<files, loader, staged, on_change, agent, uploaded_files,
                   pc, outcome, calls, same, mutated, startOn>>
    /\ UNCHANGED <<changed, chatVars>>

\* lines 163-177: loader.remove, unlink, files.remove, flag; the list
\* iterator of line 162 advances over the list that has just shrunk
RemoveFile ==
    /\ pc = "remove"
    /\ idx <= Len(files)
    /\ LET file == files[idx] IN
        /\ file \notin Range(uploaded_files)
        /\ StagedAt(staged, TempPath(file))
        /\ loader' = LoaderRemove(loader, TempPath(file))
        /\ staged' = Unlink(staged, TempPath(file))
        /\ files' = ListRemove(files, file)
    /\ on_change' = TRUE
    /\ idx' = idx + 1
    /\ mutated' = TRUE
    /\ UNCHANGED <<agent, uploaded_files, pc, outcome, calls, same, startOn>>
    /\ changed' = TRUE
    /\ UNCHANGED chatVars

\* lines 163-171 with unlink raising FileNotFoundError: the run ends there
RemoveUnlinkError ==
    /\ pc = "remove"
    /\ idx <= Len(files)
    /\ LET file == files[idx] IN
        /\ file \notin Range(uploaded_files)
        /\ ~StagedAt(staged, TempPath(file))
        /\ loader' = LoaderRemove(loader, TempPath(file))
    /\ pc' = "idle"
    /\ outcome' = "FileNotFoundError"
    /\ mutated' = (mutated \/ loader' # loader)
    /\ UNCHANGED <<files, staged, on_change, agent, uploaded_files, idx,
                   calls, same, startOn>>
    /\ UNCHANGED <<changed, chatVars>>

\* line 162: the for-loop over st.session_state.files is exhausted
RemoveDone ==
    /\ pc = "remove"
    /\ idx > Len(files)
    /\ pc' = "rebuild"
    /\ UNCHANGED <<files, loader, staged, on_change, agent, uploaded_files,
                   idx, outcome, calls, same, mutated, startOn>>
    /\ UNCHANGED <<changed, chatVars>>

\* the block of lines 181-219 run without the test of line 180
RebuildSkip_Unguarded ==
    /\ pc = "rebuild"
    /\ ~on_change
    /\ agent' = AgentExecutor(IF LoaderSize(loader) > 0
                              THEN <<VectorTool(loader, uploaded_files)>>
                              ELSE <<>>)
    /\ calls' = [split |-> 1, embed |-> 1, compose |-> 1]
    /\ pc' = "chat"
    /\ UNCHANGED <<files, loader, staged, on_change, uploaded_files, idx,
                   same, mutated, startOn>>
    /\ UNCHANGED <<outcome, changed, chatVars>>

\* line 180 with on_change false: the block is skipped
RebuildSkip ==
    /\ pc = "rebuild"
    /\ ~on_change
    /\ pc' = "chat"
    /\ UNCHANGED <<files, loader, staged, on_change, agent, uploaded_files,
                   idx, calls, same, mutated, startOn>>
    /\ UNCHANGED <<outcome, changed, chatVars>>

\* the rebuild composing over a new, empty history
RebuildWithTool_FreshMemory ==
    /\ pc = "rebuild"
    /\ on_change
    /\ LoaderSize(loader) > 0
    /\ ChunkCount(LoaderDocuments(loader)) > 0
    /\ agent' = AgentExecutor(<<VectorTool(loader, uploaded_files)>>)
    /\ calls' = [split |-> 1, embed |-> 1, compose |-> 1]
    /\ on_change' = FALSE
    /\ pc' = "chat"
    /\ UNCHANGED <<files, loader, staged, uploaded_files, idx, same, mutated,
                   startOn>>
    /\ langchain_messages' = <<>>
    /\ UNCHANGED <<outcome, changed, messages, parse_error, otherFiles>>

\* lines 180-210, 219: split, build the index, compose with the vector tool
RebuildWithTool ==
    /\ pc = "rebuild"
    /\ on_change
    /\ LoaderSize(loader) > 0
    /\ ChunkCount(LoaderDocuments(loader)) > 0
    /\ agent' = AgentExecutor(<<VectorTool(loader, uploaded_files)>>)
    /\ calls' = [split |-> 1, embed |-> 1, compose |-> 1]
    /\ on_change' = FALSE
    /\ pc' = "chat"
    /\ UNCHANGED <<files, loader, staged, uploaded_files, idx, same, mutated,
                   startOn>>
    /\ UNCHANGED <<outcome, changed, chatVars>>

\* line 219 moved into a finally clause: the flag is cleared on failure too
RebuildEmbedError_ClearsFlag ==
    /\ pc = "rebuild"
    /\ on_change
    /\ LoaderSize(loader) > 0
    /\ calls' = [split |-> 1, embed |-> 1, compose |-> 0]
    /\ on_change' = FALSE
    /\ pc' = "idle"
    /\ outcome' = "EmbeddingError"
    /\ UNCHANGED <<files, loader, staged, agent, uploaded_files, idx, same,
                   mutated, startOn>>
    /\ UNCHANGED <<changed, chatVars>>

\* the index-build exception caught and the run carried on
RebuildEmbedError_Swallowed ==
    /\ pc = "rebuild"
    /\ on_change
    /\ LoaderSize(loader) > 0
    /\ calls' = [split |-> 1, embed |-> 1, compose |-> 0]
    /\ pc' = "chat"
    /\ outcome' = outcome
    /\ UNCHANGED <<files, loader, staged, on_change, agent, uploaded_files,
                   idx, same, mutated, startOn>>
    /\ UNCHANGED <<changed, chatVars>>

\* lines 180-190 with FAISS.from_documents raising, as it does when the
\* embedding call fails and when it is given no chunk: the run ends at line 190
RebuildEmbedError ==
    /\ pc = "rebuild"
    /\ on_change
    /\ LoaderSize(loader) > 0
    /\ calls' = [split |-> 1, embed |-> 1, compose |-> 0]
    /\ pc' = "idle"
    /\ outcome' = "EmbeddingError"
    /\ UNCHANGED <<files, loader, staged, on_change, agent, uploaded_files,
                   idx, same, mutated, startOn>>
    /\ UNCHANGED <<changed, chatVars>>

\* lines 180-182, 211-219: compose without tools
RebuildNoTool ==
    /\ pc = "rebuild"
    /\ on_change
    /\ LoaderSize(loader) = 0
    /\ agent' = AgentExecutor(<<>>)
    /\ calls' = [split |-> 0, embed |-> 0, compose |-> 1]
    /\ on_change' = FALSE
    /\ pc' = "chat"
    /\ UNCHANGED <<files, loader, staged, uploaded_files, idx, same, mutated,
                   startOn>>
    /\ UNCHANGED <<outcome, changed, chatVars>>

syncVars == <<files, loader, staged, on_change, agent, uploaded_files, idx,
              calls, same, mutated, startOn, changed>>

\* line 236: no prompt was submitted; the run ends
ChatNone ==
    /\ pc = "chat"
    /\ pc' = "idle"
    /\ outcome' = "ok"
    /\ UNCHANGED <<syncVars, chatVars>>

\* lines 236-246: the prompt is shown, st.session_state.agent.invoke(prompt)
\* answers and saves the turn to its memory, the answer is shown
ChatTurn ==
    /\ pc = "chat"
    /\ Len(langchain_messages) < 2 * MaxTurns
    /\ messages' = messages \o <<[role |-> "user", content |-> Prompt],
                                 [role |-> "assistant", content |-> Answer]>>
    /\ langchain_messages' =
            langchain_messages \o <<[type |-> "human", content |-> Prompt],
                                    [type |-> "ai", content |-> Answer]>>
    /\ pc' = "idle"
    /\ outcome' = "ok"
    /\ UNCHANGED <<syncVars, parse_error, otherFiles>>

\* lines 236-246 with the agent's output parser failing inside invoke: the
\* agent's handle_parsing_errors makes the text that becomes the output
ChatParseError ==
    /\ pc = "chat"
    /\ Len(langchain_messages) < 2 * MaxTurns
    /\ agent.handle_parsing_errors = "str(error)[:50]"
    /\ \E text \in ErrorTexts :
        LET output == HandleParsingErrors(text) IN
        /\ parse_error' = [raised |-> TRUE, text |-> text]
        /\ messages' = messages \o <<[role |-> "user", content |-> Prompt],
                                     [role |-> "assistant", content |-> output]>>
        /\ langchain_messages' =
                langchain_messages \o <<[type |-> "human", content |-> Prompt],
                                        [type |-> "ai", content |-> output]>>
    /\ pc' = "idle"
    /\ outcome' = "ok"
    /\ UNCHANGED <<syncVars, otherFiles>>

\* lines 143-159 run by another session for its file: upload_tmp_dir() is
\* cached per server process (st.cache_resource), so it writes the same
\* directory; its loader and file list are its own session state
OtherAdd ==
    /\ OtherFile \notin otherFiles
    /\ otherFiles' = otherFiles \cup {OtherFile}
    /\ staged' = StageWrite(staged, OtherFile)
    /\ UNCHANGED <<files, loader, on_change, agent, uploaded_files, pc, idx,
                   outcome, calls, same, mutated, startOn, changed, messages,
                   langchain_messages, parse_error>>

\* lines 161-177 run by another session for its file
OtherRemove ==
    /\ OtherFile \in otherFiles
    /\ StagedAt(staged, TempPath(OtherFile))
    /\ staged' = Unlink(staged, TempPath(OtherFile))
    /\ otherFiles' = otherFiles \ {OtherFile}
    /\ UNCHANGED <<files, loader, on_change, agent, uploaded_files, pc, idx,
                   outcome, calls, same, mutated, startOn, changed, messages,
                   langchain_messages, parse_error>>

\* the steps of a run after its start, up to the chat input
SyncSteps ==
    \/ AddSkip
    \/ AddFile
    \/ AddLoadError
    \/ AddDone
    \/ RemoveSkip
    \/ RemoveFile
    \/ RemoveUnlinkError
    \/ RemoveDone
    \/ RebuildSkip
    \/ RebuildWithTool
    \/ RebuildEmbedError
    \/ RebuildNoTool

\* runs of a session whose user uploads and removes files and sends no prompt
Next ==
    \/ StartCycle
    \/ SyncSteps
    \/ ChatNone

Spec == Init /\ [][Next]_vars

\* runs of a session whose user also chats
NextChat ==
    \/ StartCycleShort
    \/ SyncSteps
    \/ ChatNone
    \/ ChatTurn

SpecChat == Init /\ [][NextChat]_vars

\* runs of a session next to another session of the same server process
NextShared ==
    \/ StartCycleShort
    \/ SyncSteps
    \/ ChatNone
    \/ OtherAdd
    \/ OtherRemove

SpecShared == Init /\ [][NextShared]_vars

\* runs of a session whose agent meets output-parsing errors; with file 2
\* alone no load and no unlink fails
NextParse ==
    \/ StartCycleOne
    \/ AddSkip
    \/ AddFile
    \/ AddDone
    \/ RemoveSkip
    \/ RemoveFile
    \/ RemoveDone
    \/ RebuildSkip
    \/ RebuildWithTool
    \/ RebuildEmbedError
    \/ RebuildNoTool
    \/ ChatNone
    \/ ChatParseError

SpecParse == Init /\ [][NextParse]_vars

\* ---------------------------------------------------------------- claims
Tracked == Range(files)
TrackedPaths == {TempPath(f) : f \in Tracked}
LoaderPaths == {d.path : d \in loader}
ToolCount == Len(agent.tools)
CycleEnded == pc = "idle" /\ outcome # "none"

\* C1: whenever the rebuild block has run to completion, the published agent
\* has no tool iff st.session_state.files is empty, and exactly one otherwise.
C1_ToolCountMatchesFiles ==
    (pc = "idle" /\ outcome = "ok" /\ calls.compose = 1)
        => /\ ToolCount <= 1
           /\ (ToolCount = 0 <=> files = <<>>)

\* C2: after every cycle, also one cut short by an exception, the paths of
\* the documents stored in the loader are the paths of the tracked files.
C2_LoaderMatchesFiles ==
    CycleEnded => LoaderPaths = TrackedPaths

\* C3: a second run of the two loops with the same uploaded list, right after
\* a run whose loops completed, changes neither files, loader nor staged
\* files, and leaves on_change as it was when the second run started.
C3_ReconcileIdempotent ==
    (pc = "rebuild" /\ same) => (~mutated /\ on_change = startOn)

\* C4: when the add loop and the removal loop have both completed without an
\* exception, the tracked set equals the uploaded set.
C4_ReconcileReachesUploadSet ==
    pc = "rebuild" => Tracked = Range(uploaded_files)

\* C6: when loader.load raises for a file, that file is not tracked
\* afterwards and on_change keeps the value it had before the file.
C6_FailedLoadNotTracked ==
    [][(pc = "add" /\ outcome' = "LoadError")
         => /\ uploaded_files[idx] \notin Range(files')
            /\ on_change' = on_change]_vars

\* C7: in a cycle with a loader failure every other new uploaded file is
\* still added and every tracked file absent from the upload is removed.
C7_LoadErrorDoesNotAbortBatch ==
    (pc = "idle" /\ outcome = "LoadError")
        => /\ \A f \in Range(uploaded_files) : ~Corrupt(f) => f \in Tracked
           /\ \A f \in Tracked : f \in Range(uploaded_files)

\* C8: after a rebuild that built an index, the one tool's index holds the
\* documents of exactly the tracked files.
C8_IndexCoversTrackedFiles ==
    (pc = "idle" /\ outcome = "ok" /\ calls.embed = 1)
        => /\ ToolCount = 1
           /\ {d.path : d \in agent.tools[1].index} = TrackedPaths

\* the published agent matches the tracked set (invariants 2 and 3)
AgentConsistent ==
    IF files = <<>> THEN ToolCount = 0
    ELSE /\ ToolCount = 1
         /\ {d.path : d \in agent.tools[1].index} = TrackedPaths

\* C9: at the end of every cycle on_change is false iff the published agent
\* is consistent with the tracked set.
C9_DirtyIffInconsistent ==
    CycleEnded => (~on_change <=> AgentConsistent)

\* C5: when the index build fails in the rebuild block, the published agent
\* is the one from before and on_change is still true; a set flag stays set
\* until a rebuild block is reached, so a later cycle retries.
C5_FailedRebuildKeepsAgent ==
    [][/\ (pc = "rebuild" /\ outcome' = "EmbeddingError")
            => (on_change /\ agent' = agent /\ on_change')
       /\ (on_change /\ pc # "rebuild") => on_change']_vars

\* a failed rebuild has left a one-tool agent published and the flag set
C5_Witness ==
    /\ pc = "idle"
    /\ outcome = "EmbeddingError"
    /\ ToolCount = 1
    /\ on_change

\* C10: the rebuild block reached with on_change false makes no splitter,
\* index-builder or composer call and leaves agent and on_change unchanged.
C10_CleanRebuildIsNoOp ==
    [][(pc = "rebuild" /\ ~on_change)
         => /\ agent' = agent
            /\ on_change' = on_change
            /\ calls = NoCalls
            /\ calls' = NoCalls]_vars

\* a run ended through the skipped rebuild block while a tool was published
C10_Witness ==
    /\ pc = "idle"
    /\ outcome = "ok"
    /\ ~on_change
    /\ calls = NoCalls
    /\ ToolCount = 1

\* C11: adding a file whose name is that of a tracked file changes neither
\* the tracked list, the staged bytes, the loader nor on_change.
C11_SameNameAddIsNoOp ==
    [][(/\ pc = "add"
        /\ idx <= Len(uploaded_files)
        /\ \E g \in Tracked : Name(g) = Name(uploaded_files[idx]))
         => /\ files' = files
            /\ staged' = staged
            /\ loader' = loader
            /\ on_change' = on_change]_vars

\* text.split(", ")
RECURSIVE SplitCommaSpace(_)
SplitCommaSpace(text) ==
    IF \E k \in 1..(Len(text) - 1) : text[k] = "," /\ text[k + 1] = " "
    THEN LET k == CHOOSE j \in 1..(Len(text) - 1) :
                    /\ text[j] = "," /\ text[j + 1] = " "
                    /\ \A h \in 1..(j - 1) : ~(text[h] = "," /\ text[h + 1] = " ")
         IN  <<SubSeq(text, 1, k - 1)>>
                 \o SplitCommaSpace(SubSeq(text, k + 2, Len(text)))
    ELSE <<text>>

\* the document names a tool description lists
DescribedNames(description) ==
    IF description = <<>> THEN {} ELSE Range(SplitCommaSpace(description))

\* C12: after a rebuild that built an index, the tool's description names
\* exactly the documents of its index, which are the tracked files.
C12_DescriptionNamesIndex ==
    (pc \in {"chat", "idle"} /\ outcome \in {"running", "ok"} /\ calls.embed = 1)
        => /\ ToolCount = 1
           /\ DescribedNames(agent.tools[1].description)
                = {SplitDotFirst(d.path) : d \in agent.tools[1].index}
           /\ DescribedNames(agent.tools[1].description)
                = {SplitDotFirst(Name(f)) : f \in Tracked}

\* the staged files of this session's tracked files
StagedForTracked(st) == {d \in st : d.path \in TrackedPaths}

\* C13: a step of another session leaves this session's tracked list, staged
\* files, loader content and agent as they are.
C13_SessionsIsolated ==
    [][otherFiles' # otherFiles
         => /\ files' = files
            /\ loader' = loader
            /\ agent' = agent
            /\ StagedForTracked(staged') = StagedForTracked(staged)]_vars

\* C14: a rebuild with on_change set, a non-empty tracked list and documents
\* that give no chunk publishes a toolless agent, clears on_change, raises
\* nothing and does not run the index builder.
C14_NoChunksNoIndexBuild ==
    [][(/\ pc = "rebuild"
        /\ on_change
        /\ files # <<>>
        /\ ChunkCount(LoaderDocuments(loader)) = 0)
         => /\ calls'.embed = 0
            /\ agent'.tools = <<>>
            /\ ~on_change'
            /\ pc' = "chat"]_vars

\* rebuilds (attempts included) of the current run
RebuildRuns == IF calls.embed = 1 \/ calls.compose = 1 THEN 1 ELSE 0

\* C15: a run in which a file was added or removed performs exactly one
\* rebuild.
C15_OneRebuildPerChangedCycle ==
    (CycleEnded /\ changed) => RebuildRuns = 1

\* C16: a rebuild leaves the turn history as it is and composes the new
\* agent over the same memory; only the tool list may differ.
C16_RebuildKeepsMemory ==
    [][pc = "rebuild"
         => /\ langchain_messages' = langchain_messages
            /\ agent'.memory = agent.memory
            /\ agent'.memory.chat_memory = MsgsKey
            /\ agent'.handle_parsing_errors = agent.handle_parsing_errors]_vars

\* a rebuild has composed an agent while the history held a turn
C16_Witness ==
    /\ pc = "chat"
    /\ calls.compose = 1
    /\ langchain_messages # <<>>

\* C17: after an output-parsing error the turn's output is the prefix of the
\* error text of length min(len, 50), and the run ends without an exception.
C17_ParseErrorTruncated ==
    parse_error.raised
        => LET text == parse_error.text
               output == messages[Len(messages)].content
           IN  /\ Len(output) = (IF Len(text) < 50 THEN Len(text) ELSE 50)
               /\ \A k \in 1..Len(output) : output[k] = text[k]
               /\ langchain_messages[Len(langchain_messages)].content = output
               /\ outcome = "ok"

\* an error text longer than the limit was recovered by the one-tool agent
C17_Witness ==
    /\ parse_error.raised
    /\ Len(parse_error.text) > ParseErrLimit
    /\ ToolCount = 1

\* C18: the chat step is entered from the rebuild block only, with on_change
\* false; a turn is taken in the chat step only; a run that an exception
\* ends does so before the chat step.
C18_ChatOnlyWhenClean ==
    [][/\ pc' = "chat" => (pc = "rebuild" /\ ~on_change')
       /\ pc = "chat" => ~on_change
       /\ langchain_messages' # langchain_messages => pc = "chat"
       /\ (outcome = "running" /\ outcome' \notin {"running", "ok"})
            => (pc \in {"add", "remove", "rebuild"} /\ pc' = "idle")]_vars

\* a run rebuilt the agent and then answered a prompt
C18_Witness ==
    /\ pc = "idle"
    /\ outcome = "ok"
    /\ calls.compose = 1
    /\ langchain_messages # <<>>
    /\ messages # <<>>

\* C19: every tracked file has its staged file.
C19_TrackedFilesAreStaged ==
    \A f \in Tracked : StagedAt(staged, TempPath(f))

\* C20: the run start that empties a non-empty displayed chat leaves the
\* turn history, the tracked list, the loader, on_change and the agent.
C20_ClearOnlyEmptiesDisplay ==
    [][(pc = "idle" /\ messages # <<>> /\ messages' = <<>>)
         => /\ langchain_messages' = langchain_messages
            /\ files' = files
            /\ loader' = loader
            /\ staged' = staged
            /\ on_change' = on_change
            /\ agent' = agent]_vars

\* the displayed chat was emptied while the history holds a turn
C20_Witness ==
    /\ messages = <<>>
    /\ langchain_messages # <<>>
====
